---- MODULE Spec2Model ----
(***************************************************************************)
(* Model of the BIP44 derivation path algebra of wallet-crypto             *)
(* (src/wallet-crypto/src/bip44.rs): Account, Change, Addressing and the   *)
(* operations a caller can run on them.                                    *)
(*                                                                         *)
(* A u32 is kept at its full width as two 16-bit limbs <<hi, lo>> (value   *)
(* hi * 2^16 + lo), because the hardened/soft boundary 0x80000000 and the  *)
(* wrap at 2^32 are what the checked properties are about.                 *)
(***************************************************************************)
EXTENDS Integers, Sequences, FiniteSets, TLC

VARIABLES build, addr, last, receiver, incrs, panicked,
          cfg, cmd, printed

\* the session on the bip44 library
bvars == <<build, addr, last, receiver, incrs, panicked>>

\* the runs of the `wallet` command of wallet-cli
wvars == <<cfg, cmd, printed>>

vars == <<build, addr, last, receiver, incrs, panicked, cfg, cmd, printed>>

(***************************************************************************)
(* Bounds of the exploration.                                              *)
(***************************************************************************)
\* number of incr calls one session makes
MaxIncr == 3
\* largest chunk_size handed to next_chunks
MaxChunk == 3
\* most values given for the `indices` argument of `wallet address`
MaxIndices == 2

(***************************************************************************)
(* u32 arithmetic on limbs.                                                *)
(***************************************************************************)
\* one limb holds 16 bits
Limb == 2 ^ 16

U32(hi, lo) == <<hi, lo>>

\* a < b on u32
Lt(a, b) == a[1] < b[1] \/ (a[1] = b[1] /\ a[2] < b[2])

\* a >= b on u32
Ge(a, b) == ~Lt(a, b)

\* the 32-bit sum a + b, truncated to 32 bits
WrappingAdd(a, b) ==
    LET lo == a[2] + b[2]
        hi == a[1] + b[1] + (lo \div Limb)
    IN  <<hi % Limb, lo % Limb>>

\* TRUE when a + b does not fit in 32 bits
AddOverflows(a, b) ==
    LET lo == a[2] + b[2]
        hi == a[1] + b[1] + (lo \div Limb)
    IN  hi >= Limb

RECURSIVE BitOrNat(_, _)
\* bitwise or of two naturals
BitOrNat(x, y) ==
    IF x = 0 THEN y
    ELSE IF y = 0 THEN x
    ELSE (IF x % 2 = 1 \/ y % 2 = 1 THEN 1 ELSE 0)
         + 2 * BitOrNat(x \div 2, y \div 2)

\* a | b on u32
BitOr(a, b) == <<BitOrNat(a[1], b[1]), BitOrNat(a[2], b[2])>>

\* `n as u32` for a usize n
AsU32(n) == <<(n \div Limb) % Limb, n % Limb>>

(***************************************************************************)
(* Constants of bip44.rs.                                                  *)
(***************************************************************************)
BIP44_PATH_LENGTH == 5
\* 0x8000002C
BIP44_PURPOSE == U32(32768, 44)
\* 0x80000717
BIP44_COIN_TYPE == U32(32768, 1815)
\* 0x80000000, the literal every bound check compares against
BIP44_SOFT_UPPER_BOUND == U32(32768, 0)

(***************************************************************************)
(* Results.                                                                *)
(***************************************************************************)
None == [kind |-> "None"]
Ok(v) == [kind |-> "Ok", val |-> v]
Err(e, g) == [kind |-> "Err", err |-> e, given |-> g]
\* the call did not return (arithmetic overflow with overflow checks on)
Panic == [kind |-> "Panic"]

IsOk(r) == r.kind = "Ok"
IsErr(r) == r.kind = "Err"

Internal == "Internal"
External == "External"
AddrType == {Internal, External}

(***************************************************************************)
(* Account                                                                 *)
(***************************************************************************)
\* Account::new with `>` in place of `>=`
AccountNew_OffByOne(account) ==
    IF Lt(U32(32768, 0), account)
    THEN Err("AccountOutOfBound", account)
    ELSE Ok(account)

AccountNew(account) ==
    IF Ge(account, U32(32768, 0))
    THEN Err("AccountOutOfBound", account)
    ELSE Ok(account)

AccountIndex(self) == BitOr(self, U32(32768, 0))

(***************************************************************************)
(* Change                                                                  *)
(***************************************************************************)
ChangeNew(account, change) ==
    IF Ge(change, U32(32768, 0))
    THEN Err("ChangeOutOfBound", change)
    ELSE Ok([account |-> account, change |-> change])

\* internal() storing the external encoding
AccountInternal_Swapped(self) == ChangeNew(self, U32(0, 0))

AccountInternal(self) == ChangeNew(self, U32(0, 1))

AccountExternal(self) == ChangeNew(self, U32(0, 0))

AccountChange(self, typ) ==
    IF typ = Internal THEN AccountInternal(self) ELSE AccountExternal(self)

(***************************************************************************)
(* Addressing                                                              *)
(***************************************************************************)
Addressing(account, change, index) ==
    [account |-> account, change |-> change, index |-> index]

AddressingNew(account, typ) ==
    LET change == IF typ = Internal THEN U32(0, 1) ELSE U32(0, 0)
        a == AccountNew(account)
    IN  IF IsOk(a) THEN Ok(Addressing(a.val, change, U32(0, 0))) ELSE a

\* new_from_change clamping an out-of-range index instead of rejecting it
new_from_change_Clamped(change, index) ==
    IF Ge(index, U32(32768, 0))
    THEN Ok(Addressing(change.account, change.change, U32(32767, 65535)))
    ELSE Ok(Addressing(change.account, change.change, index))

new_from_change(change, index) ==
    IF Ge(index, U32(32768, 0))
    THEN Err("IndexOutOfBound", index)
    ELSE Ok(Addressing(change.account, change.change, index))

ChangeIndex(self, index) == new_from_change(self, index)

to_path(self) ==
    <<BIP44_PURPOSE, BIP44_COIN_TYPE, AccountIndex(self.account),
      self.change, self.index>>

\* address_type testing for the internal encoding instead of the external
address_type_ByInternal(self) ==
    IF self.change = U32(0, 1) THEN Internal ELSE External

address_type(self) ==
    IF self.change = U32(0, 0) THEN External ELSE Internal

\* from_path checking the coin type before the purpose
from_path_TypeFirst(p) ==
    IF Len(p) # BIP44_PATH_LENGTH THEN Err("InvalidLength", AsU32(Len(p)))
    ELSE IF p[2] # BIP44_COIN_TYPE THEN Err("InvalidType", p[2])
    ELSE IF p[1] # BIP44_PURPOSE THEN Err("InvalidPurpose", p[1])
    ELSE LET a == p[3]
             c == p[4]
             i == p[5]
             account == AccountNew(a)
             change == IF IsOk(account) THEN ChangeNew(account.val, c)
                       ELSE account
         IN  IF IsOk(change) THEN new_from_change(change.val, i) ELSE change

from_path(p) ==
    IF Len(p) # BIP44_PATH_LENGTH THEN Err("InvalidLength", AsU32(Len(p)))
    ELSE IF p[1] # BIP44_PURPOSE THEN Err("InvalidPurpose", p[1])
    ELSE IF p[2] # BIP44_COIN_TYPE THEN Err("InvalidType", p[2])
    ELSE LET a == p[3]
             c == p[4]
             i == p[5]
             account == AccountNew(a)
             change == IF IsOk(account) THEN ChangeNew(account.val, c)
                       ELSE account
         IN  IF IsOk(change) THEN new_from_change(change.val, i) ELSE change

\* incr without the bound check on its argument
incr_Unchecked(self, n, b) ==
    IF AddOverflows(self.index, n) /\ b = "debug" THEN Panic
    ELSE Ok(Addressing(self.account, self.change, WrappingAdd(self.index, n)))

\* `addr.index += incr`: with overflow checks (debug profile) an overflowing
\* sum panics, without them (release profile) it wraps.
incr(self, n, b) ==
    IF Ge(n, U32(32768, 0)) THEN Err("IndexOutOfBound", n)
    ELSE IF AddOverflows(self.index, n) /\ b = "debug" THEN Panic
    ELSE Ok(Addressing(self.account, self.change, WrappingAdd(self.index, n)))

\* incr adding to the receiver itself instead of to a clone
incr_receiver_InPlace(self, n) ==
    [self EXCEPT !.index = WrappingAdd(self.index, n)]

\* the receiver once incr has returned: incr takes `&self` and adds to a clone
incr_receiver(self, n) == self

\* a.incr(m).and_then(|b| b.incr(n)), the chain of the doc example
incr_twice(self, m, n, b) ==
    LET first == incr(self, m, b)
    IN  IF IsOk(first) THEN incr(first.val, n, b) ELSE first

RECURSIVE chunk_loop(_, _, _, _, _)
\* the loop of next_chunks at iteration i with v accumulated
chunk_loop(self, chunk_size, i, v, b) ==
    IF i >= chunk_size THEN Ok(v)
    ELSE LET r == incr(self, AsU32(i), b)
         IN  IF r.kind = "Err" /\ r.err = "IndexOutOfBound" THEN Ok(v)
             ELSE IF r.kind = "Err" THEN r
             ELSE IF r.kind = "Panic" THEN Panic
             ELSE chunk_loop(self, chunk_size, i + 1, Append(v, r.val), b)

next_chunks(self, chunk_size, b) == chunk_loop(self, chunk_size, 0, <<>>, b)

\* the receiver once next_chunks has returned: it takes `&self`
next_chunks_receiver(self, chunk_size) == self

(***************************************************************************)
(* Inputs a caller hands to the operations: values on both sides of the    *)
(* hardened/soft boundary and of the 32-bit range.                         *)
(***************************************************************************)
AccountInputs ==
    {U32(0, 0), U32(32767, 65535), U32(32768, 0), U32(65535, 65535)}

ChangeInputs ==
    {U32(0, 0), U32(0, 1), U32(0, 2), U32(32768, 0)}

IndexInputs ==
    {U32(0, 0), U32(32767, 65535), U32(32768, 0), U32(65535, 65535)}

IncrInputs ==
    {U32(0, 0), U32(0, 1), U32(32767, 65535), U32(32768, 0),
     U32(65535, 65534)}

\* increments of the two-step chain: the doc example's 32 and 10, and the
\* largest increment incr accepts
ChainInputs == {U32(0, 10), U32(0, 32), U32(32767, 65535)}

ChunkInputs == 0..MaxChunk

\* raw paths: the template with each segment varied, and wrong lengths
PathInputs ==
    {<<p, t, a, c, i>> :
        p \in {BIP44_PURPOSE, BIP44_COIN_TYPE},
        t \in {BIP44_COIN_TYPE, U32(0, 0)},
        a \in {U32(0, 0), U32(32768, 0)},
        c \in {U32(0, 1), U32(0, 2), U32(32768, 0)},
        i \in {U32(0, 0), U32(32768, 0)}}
    \cup {<<>>,
          <<BIP44_PURPOSE, BIP44_COIN_TYPE, U32(0, 0), U32(0, 0)>>,
          <<BIP44_COIN_TYPE, U32(0, 0), U32(32768, 0), U32(32768, 0),
            U32(32768, 0), U32(0, 0)>>}

\* the Account values a caller can hold: Account's field is private, so
\* each one came out of Account::new
Accounts == {AccountNew(v).val : v \in {w \in AccountInputs : IsOk(AccountNew(w))}}

\* the Change values a caller can hold: each one came out of Change::new
Changes ==
    {ChangeNew(a, c).val : a \in Accounts,
                           c \in {d \in ChangeInputs : IsOk(ChangeNew(U32(0, 0), d))}}

(***************************************************************************)
(* A session of a caller: it holds at most one Addressing, replaces it by  *)
(* the value a successful call returns, and remembers the last call made.  *)
(***************************************************************************)
Call(op, recv, arg, res) == [op |-> op, recv |-> recv, arg |-> arg, res |-> res]

\* the value the caller holds after a call that returned r
Keep(old, r) == IF IsOk(r) THEN r ELSE old

(***************************************************************************)
(* wallet-cli: the Config and the `wallet` command (wallet.rs, config.rs). *)
(***************************************************************************)
\* Option::Some
Some(v) == [kind |-> "Some", val |-> v]

\* the fields of Config the wallet command reads or writes
Config(accounts, wallet) == [accounts |-> accounts, wallet |-> wallet]

\* Config::new: no wallet yet
ConfigNew(accounts) == Config(accounts, None)

\* the account lists a Config starts with
AccountLists == {<<"default">>, <<"default", "savings">>}

\* the account names given on the command line
AccountNames == {"default", "savings", "nobody"}

\* the seeds generate_entropy can come up with
Seeds == {"seed1", "seed2"}

\* Wallet::generate: the wallet of a seed
WalletGenerate(seed) == [seed |-> seed]

\* Config::find_account: position of the first account equal to the given
\* one, as a u32
find_account(self, account) ==
    LET hits == {k \in 1..Len(self.accounts) : self.accounts[k] = account}
    IN  IF hits = {} THEN None
        ELSE Some(AsU32((CHOOSE k \in hits : \A h \in hits : k <= h) - 1))

\* one value of the `indices` argument: a u32, or text that is not one
Parsed(v) == [parses |-> TRUE, val |-> v]
Unparsable == [parses |-> FALSE]

IndexArgs == {Parsed(v) : v \in {U32(0, 0), U32(0, 1), U32(32768, 0)}}
             \cup {Unparsable}

\* the sequences of at most n values of S
RECURSIVE SeqsUpTo(_, _)
SeqsUpTo(S, n) ==
    IF n = 0 THEN {<<>>}
    ELSE LET shorter == SeqsUpTo(S, n - 1)
         IN  shorter \cup {Append(q, x) : q \in shorter, x \in S}

\* values_t!(opts.values_of("indices"), u32).unwrap_or_else(|_| vec![0]):
\* no value given, or one that is not a u32, gives the single index 0
ParseIndices(raw) ==
    IF raw = <<>> \/ \E k \in 1..Len(raw) : ~raw[k].parses
    THEN <<U32(0, 0)>>
    ELSE [k \in 1..Len(raw) |-> raw[k].val]

\* the external key derivation: the address of a path under a wallet
Derive(wallet, p) == [wallet |-> wallet, path |-> p]

RECURSIVE gen_loop(_, _, _, _)
\* addresses of the remaining indices, appended to acc; the first index
\* whose Addressing cannot be built fails the whole batch
gen_loop(wallet, change, indices, acc) ==
    IF indices = <<>> THEN Ok(acc)
    ELSE LET a == ChangeIndex(change, Head(indices))
         IN  IF IsOk(a)
             THEN gen_loop(wallet, change, Tail(indices),
                           Append(acc, Derive(wallet, to_path(a.val))))
             ELSE a

\* wallet.gen_addresses(account, addr_type, indices)
gen_addresses(wallet, account, typ, indices) ==
    LET acc == AccountNew(account)
        change == IF IsOk(acc) THEN AccountChange(acc.val, typ) ELSE acc
    IN  IF IsOk(change) THEN gen_loop(wallet, change.val, indices, <<>>)
        ELSE change

\* base58::encode(&addr.to_bytes())
Base58(address) == [base58 |-> address]

\* the print loop printing the addresses last to first
PrintAddresses_Reversed(addresses) ==
    [k \in 1..Len(addresses) |-> Base58(addresses[Len(addresses) + 1 - k])]

\* for addr in addresses { println!(...) }: one line per address, in order
PrintAddresses(addresses) ==
    [k \in 1..Len(addresses) |-> Base58(addresses[k])]

\* what a run gives back: the Option<Config> it returns (or Panic when it
\* aborts) and the lines it printed
Outcome(out, lines) == [out |-> out, lines |-> lines]

\* the "generate" arm without the assertion that no wallet exists
RunGenerate_NoAssert(config, seed, storageOk) ==
    IF ~storageOk THEN Outcome(Panic, <<>>)
    ELSE Outcome(Some(Config(config.accounts, Some(WalletGenerate(seed)))),
                 <<>>)

\* Wallet::run, "generate": asserts that the config has no wallet, stores a
\* fresh one, and unwraps the storage it opens
RunGenerate(config, seed, storageOk) ==
    IF config.wallet # None THEN Outcome(Panic, <<>>)
    ELSE IF ~storageOk THEN Outcome(Panic, <<>>)
    ELSE Outcome(Some(Config(config.accounts, Some(WalletGenerate(seed)))),
                 <<>>)

\* Wallet::run, "address": asserts that the config has a wallet, looks the
\* account up, prints the addresses of the indices, returns no config
RunAddress(config, isInternal, accountName, raw) ==
    IF config.wallet = None THEN Outcome(Panic, <<>>)
    ELSE LET addr_type == IF isInternal THEN Internal ELSE External
             account == find_account(config, accountName)
         IN  IF account = None THEN Outcome(Panic, <<>>)
             ELSE LET addresses == gen_addresses(config.wallet.val, account.val,
                                                 addr_type, ParseIndices(raw))
                  IN  IF IsOk(addresses)
                      THEN Outcome(None, PrintAddresses(addresses.val))
                      ELSE Outcome(Panic, <<>>)

\* Wallet::run, any other subcommand: prints the usage and exits
RunOther(config) == Outcome(Panic, <<>>)

\* the record of a run: the config it was given, its arguments, the indices
\* it handed to gen_addresses, and what it returned
Run(name, pre, args, indices, out) ==
    [name |-> name, pre |-> pre, args |-> args, indices |-> indices,
     out |-> out]

\* the config the next run is given: the returned one when there is one
NextConfig(config, out) == IF out.kind = "Some" THEN out.val ELSE config

\* no call made on the library yet
InitLibrary ==
    /\ build \in {"debug", "release"}
    /\ addr = None
    /\ last = Call("none", None, None, None)
    /\ receiver = None
    /\ incrs = 0
    /\ panicked = FALSE

\* the library session, beside the default Config
Init ==
    /\ InitLibrary
    /\ cfg = ConfigNew(<<"default">>)
    /\ cmd = Run("none", None, None, None, None)
    /\ printed = <<>>

\* the runs of the wallet command, from a Config that has no wallet yet
InitWallet ==
    /\ InitLibrary
    /\ cfg \in {ConfigNew(a) : a \in AccountLists}
    /\ cmd = Run("none", None, None, None, None)
    /\ printed = <<>>

DoAccountNew ==
    /\ ~panicked
    /\ \E v \in AccountInputs :
        last' = Call("Account::new", None, v, AccountNew(v))
    /\ UNCHANGED <<build, addr, incrs, panicked>>
    /\ receiver' = None
    /\ UNCHANGED wvars

DoAccountIndex ==
    /\ ~panicked
    /\ \E a \in Accounts :
        last' = Call("Account::index", a, None, Ok(AccountIndex(a)))
    /\ UNCHANGED <<build, addr, incrs, panicked>>
    /\ receiver' = None
    /\ UNCHANGED wvars

DoAccountChange ==
    /\ ~panicked
    /\ \E a \in Accounts, typ \in AddrType :
        last' = Call("Account::change", a, typ, AccountChange(a, typ))
    /\ UNCHANGED <<build, addr, incrs, panicked>>
    /\ receiver' = None
    /\ UNCHANGED wvars

DoAccountInternal ==
    /\ ~panicked
    /\ \E a \in Accounts :
        last' = Call("Account::internal", a, None, AccountInternal(a))
    /\ UNCHANGED <<build, addr, incrs, panicked>>
    /\ receiver' = None
    /\ UNCHANGED wvars

DoAccountExternal ==
    /\ ~panicked
    /\ \E a \in Accounts :
        last' = Call("Account::external", a, None, AccountExternal(a))
    /\ UNCHANGED <<build, addr, incrs, panicked>>
    /\ receiver' = None
    /\ UNCHANGED wvars

DoChangeNew ==
    /\ ~panicked
    /\ \E a \in Accounts, c \in ChangeInputs :
        last' = Call("Change::new", a, c, ChangeNew(a, c))
    /\ UNCHANGED <<build, addr, incrs, panicked>>
    /\ receiver' = None
    /\ UNCHANGED wvars

DoChangeIndex ==
    /\ ~panicked
    /\ \E ch \in Changes, i \in IndexInputs :
        LET r == ChangeIndex(ch, i)
        IN  /\ last' = Call("Change::index", ch, i, r)
            /\ addr' = Keep(addr, r)
    /\ UNCHANGED <<build, incrs, panicked>>
    /\ receiver' = None
    /\ UNCHANGED wvars

DoAddressingNew ==
    /\ ~panicked
    /\ \E v \in AccountInputs, typ \in AddrType :
        LET r == AddressingNew(v, typ)
        IN  /\ last' = Call("Addressing::new", None, <<v, typ>>, r)
            /\ addr' = Keep(addr, r)
    /\ UNCHANGED <<build, incrs, panicked>>
    /\ receiver' = None
    /\ UNCHANGED wvars

DoToPath ==
    /\ ~panicked
    /\ IsOk(addr)
    /\ last' = Call("Addressing::to_path", addr.val, None, Ok(to_path(addr.val)))
    /\ UNCHANGED <<build, addr, incrs, panicked>>
    /\ receiver' = None
    /\ UNCHANGED wvars

DoAddressType ==
    /\ ~panicked
    /\ IsOk(addr)
    /\ last' = Call("Addressing::address_type", addr.val, None,
                    Ok(address_type(addr.val)))
    /\ UNCHANGED <<build, addr, incrs, panicked>>
    /\ receiver' = None
    /\ UNCHANGED wvars

DoFromPath ==
    /\ ~panicked
    /\ \E p \in PathInputs :
        LET r == from_path(p)
        IN  /\ last' = Call("Addressing::from_path", None, p, r)
            /\ addr' = Keep(addr, r)
    /\ UNCHANGED <<build, incrs, panicked>>
    /\ receiver' = None
    /\ UNCHANGED wvars

\* Addressing::from_path(a.to_path()) on the Addressing held
DoRoundTrip ==
    /\ ~panicked
    /\ IsOk(addr)
    /\ LET r == from_path(to_path(addr.val))
       IN  /\ last' = Call("from_path(to_path)", addr.val, to_path(addr.val), r)
           /\ addr' = Keep(addr, r)
    /\ UNCHANGED <<build, incrs, panicked>>
    /\ receiver' = None
    /\ UNCHANGED wvars

DoIncr ==
    /\ ~panicked
    /\ IsOk(addr)
    /\ incrs < MaxIncr
    /\ \E n \in IncrInputs :
        LET r == incr(addr.val, n, build)
        IN  /\ last' = Call("Addressing::incr", addr.val, n, r)
            /\ addr' = Keep(addr, r)
            /\ receiver' = Ok(incr_receiver(addr.val, n))
            /\ panicked' = (r = Panic)
    /\ incrs' = incrs + 1
    /\ UNCHANGED build
    /\ UNCHANGED wvars

\* let next = addr.incr(m).unwrap().incr(n), as in incr's doc example
DoIncrTwice ==
    /\ ~panicked
    /\ IsOk(addr)
    /\ incrs + 2 <= MaxIncr
    /\ \E m \in ChainInputs, n \in ChainInputs :
        LET r == incr_twice(addr.val, m, n, build)
        IN  /\ last' = Call("incr.incr", addr.val, <<m, n>>, r)
            /\ addr' = Keep(addr, r)
            /\ receiver' = Ok(incr_receiver(addr.val, m))
            /\ panicked' = (r = Panic)
    /\ incrs' = incrs + 2
    /\ UNCHANGED build
    /\ UNCHANGED wvars

DoNextChunks ==
    /\ ~panicked
    /\ IsOk(addr)
    /\ \E k \in ChunkInputs :
        LET r == next_chunks(addr.val, k, build)
        IN  /\ last' = Call("Addressing::next_chunks", addr.val, k, r)
            /\ receiver' = Ok(next_chunks_receiver(addr.val, k))
            /\ panicked' = (r = Panic)
    /\ UNCHANGED <<build, addr, incrs>>
    /\ UNCHANGED wvars

DoWalletGenerate ==
    /\ \E seed \in Seeds, storageOk \in BOOLEAN :
        LET r == RunGenerate(cfg, seed, storageOk)
        IN  /\ cmd' = Run("generate", cfg, seed, None, r.out)
            /\ printed' = r.lines
            /\ cfg' = NextConfig(cfg, r.out)
    /\ UNCHANGED bvars

DoWalletAddress ==
    /\ \E isInternal \in BOOLEAN, name \in AccountNames,
          raw \in SeqsUpTo(IndexArgs, MaxIndices) :
        LET r == RunAddress(cfg, isInternal, name, raw)
        IN  /\ cmd' = Run("address", cfg, <<isInternal, name, raw>>,
                          ParseIndices(raw), r.out)
            /\ printed' = r.lines
            /\ cfg' = NextConfig(cfg, r.out)
    /\ UNCHANGED bvars

DoWalletOther ==
    /\ LET r == RunOther(cfg)
       IN  /\ cmd' = Run("recover", cfg, None, None, r.out)
           /\ printed' = r.lines
           /\ cfg' = NextConfig(cfg, r.out)
    /\ UNCHANGED bvars

Next ==
    \/ DoAccountNew
    \/ DoAccountIndex
    \/ DoAccountChange
    \/ DoAccountInternal
    \/ DoAccountExternal
    \/ DoChangeNew
    \/ DoChangeIndex
    \/ DoAddressingNew
    \/ DoToPath
    \/ DoAddressType
    \/ DoFromPath
    \/ DoRoundTrip
    \/ DoIncr
    \/ DoIncrTwice
    \/ DoNextChunks

Spec == Init /\ [][Next]_vars

NextWallet ==
    \/ DoWalletGenerate
    \/ DoWalletAddress
    \/ DoWalletOther

SpecWallet == InitWallet /\ [][NextWallet]_vars

(***************************************************************************)
(* Properties.                                                             *)
(***************************************************************************)
\* x is a soft (non-hardened) derivation index
Soft(x) == Lt(x, BIP44_SOFT_UPPER_BOUND)

\* an Addressing as the data model describes it
ValidAddressing(a) == Soft(a.account) /\ Soft(a.change) /\ Soft(a.index)

\* C1: path symmetry: for every valid Addressing a,
\* Addressing::from_path(a.to_path()) returns Ok(a).
C1_PathSymmetry ==
    (last.op = "from_path(to_path)" /\ ValidAddressing(last.recv))
        => last.res = Ok(last.recv)

\* C2: every Addressing the public operations hand out (the one the caller
\* holds, and every element of a next_chunks result) has index < 0x80000000.
C2_IndexAlwaysSoft ==
    /\ IsOk(addr) => Soft(addr.val.index)
    /\ (last.op = "Addressing::next_chunks" /\ IsOk(last.res))
        => \A j \in 1..Len(last.res.val) : Soft(last.res.val[j].index)

\* incr(n) on a has to fail: n is out of the soft range, or index + n
\* overflows 32 bits, or index + n meets or exceeds 0x80000000
IncrMustFail(a, n) ==
    \/ Ge(n, BIP44_SOFT_UPPER_BOUND)
    \/ AddOverflows(a.index, n)
    \/ Ge(WrappingAdd(a.index, n), BIP44_SOFT_UPPER_BOUND)

\* C3: incr(n) fails with IndexOutOfBound when n >= 0x80000000 and whenever
\* index + n would overflow or meet/exceed 0x80000000; it never returns an
\* Addressing whose index wrapped around modulo 2^32.
C3_IncrChecked ==
    last.op = "Addressing::incr" =>
        /\ IncrMustFail(last.recv, last.arg)
            => (IsErr(last.res) /\ last.res.err = "IndexOutOfBound")
        /\ IsOk(last.res) => ~AddOverflows(last.recv.index, last.arg)

\* C4: Account::new(v) succeeds exactly when v < 0x80000000 and otherwise
\* fails with AccountOutOfBound(v); index() of an Account is its value with
\* the top bit set, so it is always >= 0x80000000.
C4_HardenedBoundary ==
    /\ last.op = "Account::new" =>
        last.res = IF Lt(last.arg, BIP44_SOFT_UPPER_BOUND)
                   THEN Ok(last.arg)
                   ELSE Err("AccountOutOfBound", last.arg)
    /\ last.op = "Account::index" =>
        /\ last.res = Ok(U32(last.recv[1] + 32768, last.recv[2]))
        /\ Ge(last.res.val, BIP44_SOFT_UPPER_BOUND)

\* C4 witness: Account::new(0x7fffffff).index() returned 0xffffffff
C4_Witness ==
    /\ last.op = "Account::index"
    /\ last.recv = U32(32767, 65535)
    /\ last.res = Ok(U32(65535, 65535))

\* C5 as stated: the change of an Addressing is 0 or 1 and never anything
\* else, and address_type() is Internal iff change = 1, External iff
\* change = 0.
C5_Original ==
    /\ IsOk(addr) => addr.val.change \in {U32(0, 0), U32(0, 1)}
    /\ last.op = "Addressing::address_type" =>
        /\ last.res.val = Internal <=> last.recv.change = U32(0, 1)
        /\ last.res.val = External <=> last.recv.change = U32(0, 0)

\* C5 amended: the change of an Addressing is any soft value (< 0x80000000),
\* address_type() is External iff change = 0 and Internal iff change # 0,
\* and Addressing::new only produces change 0 or 1.
C5_AddressTypeMapping ==
    /\ IsOk(addr) => Soft(addr.val.change)
    /\ last.op = "Addressing::address_type" =>
        /\ last.res.val = External <=> last.recv.change = U32(0, 0)
        /\ last.res.val = Internal <=> last.recv.change # U32(0, 0)
    /\ (last.op = "Addressing::new" /\ IsOk(last.res))
        => last.res.val.change \in {U32(0, 0), U32(0, 1)}

\* C5 witness: address_type() answered Internal for an Addressing of change 2
C5_Witness ==
    /\ last.op = "Addressing::address_type"
    /\ last.recv.change = U32(0, 2)
    /\ last.res = Ok(Internal)

\* C6: next_chunks(k) always returns successfully at most k elements, the
\* j-th being the receiver with index + j, every one within the soft range,
\* and it is shorter than k only because the next index would be 0x80000000.
C6_NextChunks ==
    last.op = "Addressing::next_chunks" =>
        /\ IsOk(last.res)
        /\ Len(last.res.val) <= last.arg
        /\ \A j \in 1..Len(last.res.val) :
            /\ ~AddOverflows(last.recv.index, AsU32(j - 1))
            /\ last.res.val[j] =
                 Addressing(last.recv.account, last.recv.change,
                            WrappingAdd(last.recv.index, AsU32(j - 1)))
            /\ Soft(last.res.val[j].index)
        /\ Len(last.res.val) < last.arg
            => ~Soft(WrappingAdd(last.recv.index, AsU32(Len(last.res.val))))

\* C7 as stated: incr(0xfffffffe) on Addressing::new(0, External) returns an
\* Addressing of index 0xfffffffe (the chain unwraps it before next_chunks).
C7_Original ==
    (/\ last.op = "Addressing::incr"
     /\ last.recv = Addressing(U32(0, 0), U32(0, 0), U32(0, 0))
     /\ last.arg = U32(65535, 65534))
        => (IsOk(last.res) /\ last.res.val.index = U32(65535, 65534))

\* C7 amended: incr(0xfffffffe) on Addressing::new(0, External) fails with
\* IndexOutOfBound(0xfffffffe), so the chain stops at its unwrap and
\* next_chunks(10) is never reached.
C7_ChainStopsAtIncr ==
    (/\ last.op = "Addressing::incr"
     /\ last.recv = Addressing(U32(0, 0), U32(0, 0), U32(0, 0))
     /\ last.arg = U32(65535, 65534))
        => (/\ last.res = Err("IndexOutOfBound", U32(65535, 65534))
            /\ addr = Ok(last.recv))

\* C7 witness: that incr was called
C7_Witness ==
    /\ last.op = "Addressing::incr"
    /\ last.recv = Addressing(U32(0, 0), U32(0, 0), U32(0, 0))
    /\ last.arg = U32(65535, 65534)
    /\ IsErr(last.res)

\* C8: from_path(p) reports one error by precedence: InvalidLength(len),
\* then InvalidPurpose(p[0]), then InvalidType(p[1]), then
\* AccountOutOfBound(p[2]), ChangeOutOfBound(p[3]), IndexOutOfBound(p[4]);
\* Ok only when none applies; each error carries the offending value.
C8_FromPathPrecedence ==
    last.op = "Addressing::from_path" =>
        LET p == last.arg
            badLen == Len(p) # 5
            badPurpose == ~badLen /\ p[1] # BIP44_PURPOSE
            badType == ~badLen /\ ~badPurpose /\ p[2] # BIP44_COIN_TYPE
            shaped == ~badLen /\ ~badPurpose /\ ~badType
            badAccount == shaped /\ ~Soft(p[3])
            badChange == shaped /\ ~badAccount /\ ~Soft(p[4])
            badIndex == shaped /\ ~badAccount /\ ~badChange /\ ~Soft(p[5])
        IN  /\ badLen => last.res = Err("InvalidLength", U32(0, Len(p)))
            /\ badPurpose => last.res = Err("InvalidPurpose", p[1])
            /\ badType => last.res = Err("InvalidType", p[2])
            /\ badAccount => last.res = Err("AccountOutOfBound", p[3])
            /\ badChange => last.res = Err("ChangeOutOfBound", p[4])
            /\ badIndex => last.res = Err("IndexOutOfBound", p[5])
            /\ IsOk(last.res) <=>
                 ~(badLen \/ badPurpose \/ badType \/ badAccount
                   \/ badChange \/ badIndex)
            /\ IsOk(last.res) => last.res.val = Addressing(p[3], p[4], p[5])

\* C8 witness: a path wrong in purpose, coin type, change and index at once
\* was reported as InvalidPurpose
C8_Witness ==
    /\ last.op = "Addressing::from_path"
    /\ Len(last.arg) = 5
    /\ last.arg[1] # BIP44_PURPOSE
    /\ last.arg[2] # BIP44_COIN_TYPE
    /\ ~Soft(last.arg[4])
    /\ ~Soft(last.arg[5])
    /\ last.res = Err("InvalidPurpose", last.arg[1])

\* C9: Change::new(account, c) succeeds exactly when c < 0x80000000 and
\* otherwise fails with ChangeOutOfBound(c); change.index(i) succeeds exactly
\* when i < 0x80000000, storing account, change and i unmodified, and
\* otherwise fails with IndexOutOfBound(i).
C9_SoftBoundsRejected ==
    /\ last.op = "Change::new" =>
        last.res = IF Lt(last.arg, BIP44_SOFT_UPPER_BOUND)
                   THEN Ok([account |-> last.recv, change |-> last.arg])
                   ELSE Err("ChangeOutOfBound", last.arg)
    /\ last.op = "Change::index" =>
        last.res = IF Lt(last.arg, BIP44_SOFT_UPPER_BOUND)
                   THEN Ok(Addressing(last.recv.account, last.recv.change,
                                      last.arg))
                   ELSE Err("IndexOutOfBound", last.arg)

\* C9 witness: change.index(0x80000000) was rejected with the value it got
C9_Witness ==
    /\ last.op = "Change::index"
    /\ last.arg = U32(32768, 0)
    /\ last.res = Err("IndexOutOfBound", U32(32768, 0))

\* C10: internal() and external() always succeed and store change 1 and 0,
\* change(typ) agrees with them, Addressing::new(v, typ) for v < 0x80000000
\* has index 0 and address_type() = typ, and fails with AccountOutOfBound(v)
\* for v >= 0x80000000.
C10_AddrTypeEncoding ==
    /\ last.op = "Account::internal" =>
        last.res = Ok([account |-> last.recv, change |-> U32(0, 1)])
    /\ last.op = "Account::external" =>
        last.res = Ok([account |-> last.recv, change |-> U32(0, 0)])
    /\ last.op = "Account::change" =>
        last.res = Ok([account |-> last.recv,
                       change |-> IF last.arg = Internal THEN U32(0, 1)
                                  ELSE U32(0, 0)])
    /\ last.op = "Addressing::new" =>
        IF Lt(last.arg[1], BIP44_SOFT_UPPER_BOUND)
        THEN /\ IsOk(last.res)
             /\ last.res.val.account = last.arg[1]
             /\ last.res.val.index = U32(0, 0)
             /\ address_type(last.res.val) = last.arg[2]
        ELSE last.res = Err("AccountOutOfBound", last.arg[1])

\* C10 witness: account.change(Internal) returned the Change of encoding 1
C10_Witness ==
    /\ last.op = "Account::change"
    /\ last.arg = Internal
    /\ IsOk(last.res)
    /\ last.res.val.change = U32(0, 1)

\* C11: from Addressing::new(0, External), incr(0x7fffffff) succeeds with
\* index 0x7fffffff and incr(0x80000000) fails with IndexOutOfBound; two
\* successful increments accumulate: a.incr(m).incr(n) has index
\* a.index + m + n (the sum itself, not the sum modulo 2^32).
C11_IncrAccumulates ==
    /\ (/\ last.op = "Addressing::incr"
        /\ last.recv = Addressing(U32(0, 0), U32(0, 0), U32(0, 0))
        /\ last.arg = U32(32767, 65535))
        => last.res = Ok(Addressing(U32(0, 0), U32(0, 0), U32(32767, 65535)))
    /\ (/\ last.op = "Addressing::incr"
        /\ last.recv = Addressing(U32(0, 0), U32(0, 0), U32(0, 0))
        /\ last.arg = U32(32768, 0))
        => last.res = Err("IndexOutOfBound", U32(32768, 0))
    /\ (last.op = "incr.incr" /\ IsOk(last.res)) =>
        LET m == last.arg[1]
            n == last.arg[2]
            mid == WrappingAdd(last.recv.index, m)
        IN  /\ ~AddOverflows(last.recv.index, m)
            /\ ~AddOverflows(mid, n)
            /\ last.res.val.index = WrappingAdd(mid, n)
    /\ (/\ last.op = "incr.incr"
        /\ last.recv.index = U32(0, 0)
        /\ last.arg = <<U32(0, 32), U32(0, 10)>>)
        => (IsOk(last.res) /\ last.res.val.index = U32(0, 42))

\* C13: a successful incr returns the receiver's account and change, the
\* receiver is unchanged after incr whether it succeeds or fails, and every
\* element next_chunks returns has the receiver's account and change.
C13_IncrFrame ==
    /\ (last.op \in {"Addressing::incr", "incr.incr"} /\ IsOk(last.res)) =>
        /\ last.res.val.account = last.recv.account
        /\ last.res.val.change = last.recv.change
    /\ last.op \in {"Addressing::incr", "incr.incr", "Addressing::next_chunks"}
        => receiver = Ok(last.recv)
    /\ (last.op = "Addressing::next_chunks" /\ IsOk(last.res)) =>
        \A j \in 1..Len(last.res.val) :
            /\ last.res.val[j].account = last.recv.account
            /\ last.res.val[j].change = last.recv.change

\* C13 witness: an incr that moved the index returned a new Addressing of
\* the same account and of change 2, and left its receiver as it was
C13_Witness ==
    /\ last.op = "Addressing::incr"
    /\ IsOk(last.res)
    /\ last.recv.change = U32(0, 2)
    /\ last.res.val.change = U32(0, 2)
    /\ last.res.val.index # last.recv.index
    /\ receiver = Ok(last.recv)

\* the `wallet address` run went as far as gen_addresses: the config had a
\* wallet and the account was found
ReachedGenAddresses ==
    /\ cmd.name = "address"
    /\ cmd.pre.wallet # None
    /\ \E k \in 1..Len(cmd.pre.accounts) : cmd.pre.accounts[k] = cmd.args[2]

\* the Addressing of the j-th requested index of the run
RequestedAddressing(j) ==
    LET pos == CHOOSE k \in 1..Len(cmd.pre.accounts) :
                   /\ cmd.pre.accounts[k] = cmd.args[2]
                   /\ \A h \in 1..(k - 1) : cmd.pre.accounts[h] # cmd.args[2]
    IN  Addressing(U32(0, pos - 1),
                   IF cmd.args[1] THEN U32(0, 1) ELSE U32(0, 0),
                   cmd.indices[j])

\* C12: address generation is order-preserving and all-or-nothing: on
\* success there is one address per requested index, in the caller's order,
\* repeated indices included; if the Addressing of any requested index
\* cannot be built the whole batch fails and no address is given out.
C12_BatchAllOrNothing ==
    ReachedGenAddresses =>
        IF \A j \in 1..Len(cmd.indices) : Soft(cmd.indices[j])
        THEN /\ cmd.out = None
             /\ Len(printed) = Len(cmd.indices)
             /\ \A j \in 1..Len(cmd.indices) :
                  printed[j] =
                      Base58(Derive(cmd.pre.wallet.val,
                                    to_path(RequestedAddressing(j))))
        ELSE /\ cmd.out = Panic
             /\ printed = <<>>

\* C12 witness: a batch of two different indices came out in request order
C12_Witness ==
    /\ ReachedGenAddresses
    /\ Len(cmd.indices) = 2
    /\ cmd.indices[1] = U32(0, 1)
    /\ cmd.indices[2] = U32(0, 0)
    /\ Len(printed) = 2
    /\ printed[1].base58.path[5] = U32(0, 1)
    /\ printed[2].base58.path[5] = U32(0, 0)

\* C14: an existing wallet is never replaced: a "generate" that returns a
\* config was given one without a wallet and returns one with a wallet, a
\* "generate" on a config that holds a wallet aborts without a config, and
\* an "address" that does not abort was given a wallet and returns no
\* config, the stored wallet and accounts staying as they were.
C14_WalletNeverReplaced ==
    /\ cmd.name = "generate" =>
        /\ cmd.pre.wallet # None => cmd.out = Panic
        /\ cmd.out # Panic =>
            /\ cmd.pre.wallet = None
            /\ cmd.out.kind = "Some"
            /\ cmd.out.val.wallet # None
            /\ cmd.out.val.accounts = cmd.pre.accounts
            /\ cfg = cmd.out.val
    /\ cmd.name = "address" =>
        /\ cmd.pre.wallet = None => cmd.out = Panic
        /\ cmd.out # Panic => (cmd.pre.wallet # None /\ cmd.out = None)
        /\ cfg = cmd.pre
    /\ (cmd.name # "none" /\ cmd.pre.wallet # None) =>
        cfg.wallet = cmd.pre.wallet

\* C14 witness: "generate" on a config that holds a wallet aborted and the
\* wallet is still the one it was
C14_Witness ==
    /\ cmd.name = "generate"
    /\ cmd.pre.wallet # None
    /\ cmd.out = Panic
    /\ cfg.wallet = cmd.pre.wallet
    /\ cmd.args # cfg.wallet.val.seed

====
